---- MODULE Spec2Model ----
(***************************************************************************)
(* Standard Celeration Chart dashboard (src/app.js).                       *)
(*                                                                         *)
(* Number representation.  The program works on IEEE doubles; the model    *)
(* uses fixed point:                                                       *)
(*   - a metric value is an integer count of 1/10000 (One == 1.0);         *)
(*   - a base-10 logarithm is an integer count of 1/1000 decade;           *)
(*   - a pixel coordinate is an integer count of 1/100 px;                 *)
(*   - a trend abscissa (a day, possibly fractional) is a count of 1/10    *)
(*     day.                                                                *)
(* A number that can be NaN (the regression path) is a record              *)
(* [nan |-> BOOLEAN, v |-> Int].                                           *)
(* A JS object is a function from its own keys to values, so that object   *)
(* spread and optional fields are modelled as the code has them.           *)
(***************************************************************************)
EXTENDS Integers, Sequences, FiniteSets, TLC

VARIABLES
    state,           \* the state object: students, activeStudents, activeMetrics,
                     \* displayOptions, zoom
    canvas,          \* the draw operations issued by the last drawChart
    statsPanel,      \* #statsPanel as left by the last updateStats
    legend,          \* #chartLegend as left by the last updateLegend
    subtitle,        \* #chartSubtitle as left by the last updateChartSubtitle
    tooltip,         \* #tooltip as left by the last mouse handler
    pointer          \* chart-relative position of the last mousemove

vars == <<state, canvas, statsPanel, legend, subtitle, tooltip, pointer>>

----------------------------------------------------------------------------
(* Bounds of the model *)

MaxStudents == 2        \* roster entries
MaxAssessments == 3     \* assessments of one ingested record

----------------------------------------------------------------------------
(* Fixed-point units and CONFIG *)

One == 10000                      \* the value 1.0
yMin == 10                        \* CONFIG.yMin  = 0.001
yMax == 10000000                  \* CONFIG.yMax  = 1000
Sentinel == 5                     \* the literal 0.0005 of drawDataSeries
PickRadius == 2000                \* the literal 20 (px) of handleMouseMove
ChartWidth == 12600               \* chartWidth  = 126 px
ChartHeight == 6000               \* chartHeight = 60 px

zoomLevels ==
    [d \in {7, 30, 90, 140} |->
        CASE d = 7   -> [label |-> "1 Week",   days |-> 7,   weekInterval |-> 1, dayInterval |-> 1]
          [] d = 30  -> [label |-> "1 Month",  days |-> 30,  weekInterval |-> 1, dayInterval |-> 7]
          [] d = 90  -> [label |-> "3 Months", days |-> 90,  weekInterval |-> 2, dayInterval |-> 14]
          [] d = 140 -> [label |-> "Full",     days |-> 140, weekInterval |-> 4, dayInterval |-> 14]]

studentColors ==
    <<"#06b6d4", "#f59e0b", "#a855f7", "#ec4899",
      "#10b981", "#6366f1", "#f43f5e", "#84cc16">>

metricColors ==
    [correctPerMinute |-> "#22c55e", errorsPerMinute |-> "#ef4444",
     wpm |-> "#3b82f6", accuracy |-> "#a855f7", prosody |-> "#f59e0b"]

\* the keys of CONFIG.metricColors in the order they are configured
metricOrder == <<"correctPerMinute", "errorsPerMinute", "wpm", "accuracy", "prosody">>

majorLogLines == <<10, 100, 1000, 10000, 100000, 1000000, 10000000>>

logGridLines ==
    <<10, 50, 100, 500, 1000, 5000, 10000, 50000, 100000, 500000,
      1000000, 5000000, 10000000>>

----------------------------------------------------------------------------
(* Generic helpers *)

Range(s) == {s[i] : i \in DOMAIN s}

RECURSIVE SeqSum(_)
SeqSum(s) == IF s = <<>> THEN 0 ELSE Head(s) + SeqSum(Tail(s))

RECURSIVE Flatten(_)
Flatten(ss) == IF ss = <<>> THEN <<>> ELSE Head(ss) \o Flatten(Tail(ss))

MinOf(S) == CHOOSE m \in S : \A x \in S : m <= x
MaxOf(S) == CHOOSE m \in S : \A x \in S : x <= m
Min2(a, b) == IF a <= b THEN a ELSE b
Max2(a, b) == IF a >= b THEN a ELSE b

\* Array.prototype.find / findIndex: the first of the indices whose element
\* satisfies the callback, 0 when there is none
FirstIndex(indices) == IF indices = {} THEN 0 ELSE MinOf(indices)

\* { ...a, ...b }
Spread(a, b) ==
    [k \in (DOMAIN a) \cup (DOMAIN b) |-> IF k \in DOMAIN b THEN b[k] ELSE a[k]]

\* obj.key || 0  (an absent numeric field reads as 0)
OrZero(obj, key) == IF key \in DOMAIN obj THEN obj[key] ELSE 0

Num(v) == [nan |-> FALSE, v |-> v]
NaN == [nan |-> TRUE, v |-> 0]

\* Math.log10 on the values m * 10^k, m in {1, 2, 5}, in 1/1000 decade
RECURSIVE Log10(_)
Log10(v) ==
    IF v >= 10 THEN 1000 + Log10(v \div 10)
    ELSE (CASE v = 1 -> 0 [] v = 2 -> 301 [] v = 5 -> 699) - 4000

----------------------------------------------------------------------------
(* Coordinate transformations *)

logMin == Log10(yMin)
logMax == Log10(yMax)

\* the tail of valueToY, from the logarithm on: chartHeight * (1 - normalized)
valueToYLog(logValue, chartHeight) ==
    chartHeight - (chartHeight * (logValue - logMin)) \div (logMax - logMin)

valueToY(value, chartHeight) ==
    valueToYLog(Log10(Max2(yMin, Min2(yMax, value))), chartHeight)

\* valueToY(Math.pow(10, l), chartHeight) for a logarithm l that may be NaN:
\* Math.max/Math.min/Math.log10 propagate NaN; clamping the value clamps its
\* logarithm
valueToYPow10(l, chartHeight) ==
    IF l.nan THEN NaN
    ELSE Num(valueToYLog(Max2(logMin, Min2(logMax, l.v)), chartHeight))

\* (normalizedDay / xMax) * chartWidth
dayToX(normalizedDay, chartWidth, xMax) == (normalizedDay * chartWidth) \div xMax

----------------------------------------------------------------------------
(* Series extraction *)

metricValue(a, metric) ==
    CASE metric = "correctPerMinute" -> OrZero(a.celeration, "correctPerMinute")
      [] metric = "errorsPerMinute"  -> OrZero(a.celeration, "errorsPerMinute")
      [] metric = "wpm" ->
            IF "performance" \in DOMAIN a THEN OrZero(a.performance, "wpm") ELSE 0
      [] metric = "accuracy" ->
            IF "performance" \in DOMAIN a THEN OrZero(a.performance, "accuracy") ELSE 0
      [] metric = "prosody" ->
            (IF "prosody" \in DOMAIN a THEN OrZero(a.prosody, "score") ELSE 0) * 20
      [] OTHER -> 0

\* the object built by the map callback of getDataPoints; countingTimeMin is
\* only ever tested for truthiness and > 0, so undefined reads as 0
dataPoint(a, metric) ==
    [day |-> a.celeration.calendarDay,
     value |-> metricValue(a, metric),
     countingTimeMin |-> OrZero(a.celeration, "countingTimeMin"),
     date |-> a.celeration.date,
     assessment |-> a]

\* Array.prototype.sort((a, b) => a.day - b.day): stable, ascending by day
RECURSIVE insertByDay(_, _)
insertByDay(sorted, p) ==
    IF sorted = <<>> THEN <<p>>
    ELSE IF Head(sorted).day <= p.day
         THEN <<Head(sorted)>> \o insertByDay(Tail(sorted), p)
         ELSE <<p>> \o sorted

RECURSIVE sortByDay(_)
sortByDay(s) ==
    IF s = <<>> THEN <<>>
    ELSE insertByDay(sortByDay(SubSeq(s, 1, Len(s) - 1)), s[Len(s)])

hasCeleration(a) == "celeration" \in DOMAIN a

\* getDataPoints without its trailing sort
getDataPointsUnsorted(student, metric) ==
    LET withCeleration == SelectSeq(student.assessments, hasCeleration)
    IN [i \in DOMAIN withCeleration |-> dataPoint(withCeleration[i], metric)]

\* getDataPoints keeping, for a metric read from a.performance or a.prosody,
\* only the assessments that have that object too
getDataPointsOwnField(student, metric) ==
    LET own == CASE metric \in {"wpm", "accuracy"} -> "performance"
                 [] metric = "prosody" -> "prosody"
                 [] OTHER -> "celeration"
        kept == SelectSeq(student.assessments,
                          LAMBDA a : hasCeleration(a) /\ own \in DOMAIN a)
    IN sortByDay([i \in DOMAIN kept |-> dataPoint(kept[i], metric)])

getDataPoints(student, metric) ==
    LET withCeleration == SelectSeq(student.assessments, hasCeleration)
        mapped == [i \in DOMAIN withCeleration |-> dataPoint(withCeleration[i], metric)]
    IN sortByDay(mapped)

\* lines 569-576 of drawDataSeries: the points with normalizedDay added
normalizePoints(dataPoints) ==
    LET minDay == MinOf({dataPoints[i].day : i \in DOMAIN dataPoints})
    IN [i \in DOMAIN dataPoints |->
           Spread(dataPoints[i], [normalizedDay |-> dataPoints[i].day - minDay])]

\* line 579 of drawDataSeries
visibleOf(normalizedPoints, xMax) ==
    SelectSeq(normalizedPoints, LAMBDA p : p.normalizedDay <= xMax)

----------------------------------------------------------------------------
(* Trend line *)

\* the least-squares sums of drawCelerationLine / calculateCeleration over
\* the abscissas xs and the logarithms ys; the slope is num / den
regression(xs, ys) ==
    LET n == Len(xs)
        sumX == SeqSum(xs)
        sumY == SeqSum(ys)
        sumXY == SeqSum([i \in DOMAIN xs |-> xs[i] * ys[i]])
        sumX2 == SeqSum([i \in DOMAIN xs |-> xs[i] * xs[i]])
    IN [n |-> n, sumX |-> sumX, sumY |-> sumY,
        num |-> n * sumXY - sumX * sumY,
        den |-> n * sumX2 - sumX * sumX]

\* intercept + slope * x for x given in 1/10 day; a zero denominator makes the
\* slope 0/0 (or +-Infinity once rounding leaves the numerator nonzero), and
\* every value computed from it is NaN
trendLogAt(r, x10) ==
    IF r.den = 0 THEN NaN
    ELSE Num((10 * (r.den * r.sumY - r.num * r.sumX) + r.n * r.num * x10)
                \div (10 * r.n * r.den))

\* Math.min(3, xMax * 0.1), in 1/10 day
extendDays(xMax) == Min2(30, xMax)

\* trendSpan with the end of the segment not clipped to the zoom span
trendSpanUnclipped(points, xMax) ==
    LET days == {points[i].normalizedDay : i \in DOMAIN points}
    IN [startX |-> Max2(0, 10 * MinOf(days) - extendDays(xMax)),
        endX |-> 10 * MaxOf(days) + extendDays(xMax)]

\* startX and endX of drawCelerationLine, in 1/10 day
trendSpan(points, xMax) ==
    LET days == {points[i].normalizedDay : i \in DOMAIN points}
        minX == MinOf(days)
        maxX == MaxOf(days)
    IN [startX |-> Max2(0, 10 * minX - extendDays(xMax)),
        endX |-> Min2(10 * xMax, 10 * maxX + extendDays(xMax))]

drawCelerationLine(points, color, chartWidth, chartHeight, xMax) ==
    LET r == regression([i \in DOMAIN points |-> points[i].normalizedDay],
                        [i \in DOMAIN points |-> Log10(points[i].value)])
        span == trendSpan(points, xMax)
    IN <<[op |-> "trend", color |-> color,
          x1 |-> (span.startX * chartWidth) \div (10 * xMax),
          y1 |-> valueToYPow10(trendLogAt(r, span.startX), chartHeight),
          x2 |-> (span.endX * chartWidth) \div (10 * xMax),
          y2 |-> valueToYPow10(trendLogAt(r, span.endX), chartHeight)]>>

----------------------------------------------------------------------------
(* One series *)

isPositive(p) == p.value > 0

\* connectingLine drawn through every visible point, a value <= 0 plotted at
\* the sentinel height
connectingLineThroughAll(visiblePoints, color, chartWidth, chartHeight, xMax) ==
    <<[op |-> "polyline", color |-> color,
       path |-> [i \in DOMAIN visiblePoints |->
                    [cmd |-> IF i = 1 THEN "moveTo" ELSE "lineTo",
                     x |-> dayToX(visiblePoints[i].normalizedDay, chartWidth, xMax),
                     y |-> valueToY(IF visiblePoints[i].value > 0
                                    THEN visiblePoints[i].value ELSE Sentinel,
                                    chartHeight)]]]>>

\* lines 581-605: one path; the first positive point is a moveTo, every later
\* positive point a lineTo
connectingLine(visiblePoints, color, chartWidth, chartHeight, xMax) ==
    LET drawn == SelectSeq(visiblePoints, isPositive)
    IN <<[op |-> "polyline", color |-> color,
          path |-> [i \in DOMAIN drawn |->
                       [cmd |-> IF i = 1 THEN "moveTo" ELSE "lineTo",
                        x |-> dayToX(drawn[i].normalizedDay, chartWidth, xMax),
                        y |-> valueToY(drawn[i].value, chartHeight)]]]>>

\* the value of a marker handed to valueToY without the substitution of
\* line 619
markerValueRaw(point) == point.value

\* line 619: point.value > 0 ? point.value : 0.0005
markerValue(point) == IF point.value > 0 THEN point.value ELSE Sentinel

\* lines 617-628: the marker of one visible point
marker(point, metric, color, chartWidth, chartHeight, xMax) ==
    [op |-> IF metric = "errorsPerMinute" THEN "xmark"
            ELSE IF point.value = 0 THEN "qmark" ELSE "dot",
     color |-> color,
     x |-> dayToX(point.normalizedDay, chartWidth, xMax),
     y |-> valueToY(markerValue(point), chartHeight)]

hasFloor(p) == p.countingTimeMin # 0 /\ p.countingTimeMin > 0

\* line 636: 1 / point.countingTimeMin
floorValue(point) == (One * One) \div point.countingTimeMin

\* lines 633-648: the record-floor tick of one visible point
floorTick(point, color, chartWidth, chartHeight, xMax) ==
    LET x == dayToX(point.normalizedDay, chartWidth, xMax)
    IN [op |-> "floor", color |-> color,
        x1 |-> x - 800, x2 |-> x + 800,
        y |-> valueToY(floorValue(point), chartHeight)]

drawDataSeries(displayOptions, student, metric, chartWidth, chartHeight, xMax) ==
    LET color == IF metric \in DOMAIN metricColors
                 THEN metricColors[metric] ELSE "undefined"
        dataPoints == getDataPoints(student, metric)
        visiblePoints == visibleOf(normalizePoints(dataPoints), xMax)
        validPoints == SelectSeq(visiblePoints, isPositive)
        floored == SelectSeq(visiblePoints, hasFloor)
    IN IF dataPoints = <<>> THEN <<>>
       ELSE (IF displayOptions.connectPoints /\ Len(visiblePoints) > 1
             THEN connectingLine(visiblePoints, color, chartWidth, chartHeight, xMax)
             ELSE <<>>)
         \o (IF displayOptions.showCelerationLines /\ Len(visiblePoints) >= 2
                /\ Len(validPoints) >= 2
             THEN drawCelerationLine(validPoints, color, chartWidth, chartHeight, xMax)
             ELSE <<>>)
         \o (IF displayOptions.showDataPoints
             THEN [i \in DOMAIN visiblePoints |->
                     marker(visiblePoints[i], metric, color, chartWidth, chartHeight, xMax)]
             ELSE <<>>)
         \o (IF displayOptions.showRecordFloor
             THEN [i \in DOMAIN floored |->
                     floorTick(floored[i], color, chartWidth, chartHeight, xMax)]
             ELSE <<>>)

\* the values one call of drawDataSeries hands to valueToY from the data, in
\* call order (lines 593, 619, 637); the two calls of drawCelerationLine
\* (lines 753-754) take Math.pow(10, ...), which is positive or NaN
valueToYCalls(displayOptions, student, metric, xMax) ==
    LET dataPoints == getDataPoints(student, metric)
        visiblePoints == visibleOf(normalizePoints(dataPoints), xMax)
        drawn == SelectSeq(visiblePoints, isPositive)
        floored == SelectSeq(visiblePoints, hasFloor)
    IN IF dataPoints = <<>> THEN <<>>
       ELSE (IF displayOptions.connectPoints /\ Len(visiblePoints) > 1
             THEN [i \in DOMAIN drawn |-> drawn[i].value]
             ELSE <<>>)
         \o (IF displayOptions.showDataPoints
             THEN [i \in DOMAIN visiblePoints |-> markerValue(visiblePoints[i])]
             ELSE <<>>)
         \o (IF displayOptions.showRecordFloor
             THEN [i \in DOMAIN floored |-> floorValue(floored[i])]
             ELSE <<>>)

----------------------------------------------------------------------------
(* The whole chart *)

getZoomConfig(zoom) ==
    IF zoom \in DOMAIN zoomLevels THEN zoomLevels[zoom] ELSE zoomLevels[140]

\* the values 0, step, 2*step, ... not above top (for (v = 0; v <= top; v += step))
steps(top, step) == [i \in 1..(top \div step + 1) |-> (i - 1) * step]

\* lines 505-518 on a chart of height ChartHeight: one row per grid value
logGridRows ==
    [i \in DOMAIN logGridLines |->
        [op |-> "hline", y |-> valueToY(logGridLines[i], ChartHeight),
         major |-> logGridLines[i] \in Range(majorLogLines)]]

\* lines 528-532 on a chart of height ChartHeight
yAxisLabels ==
    [i \in DOMAIN majorLogLines |->
        [op |-> "yLabel", text |-> majorLogLines[i],
         y |-> valueToY(majorLogLines[i], ChartHeight)]]

\* drawGrid on a chart of height ChartHeight
drawGrid(width, xMax, zoomConfig) ==
    LET days == steps(xMax, zoomConfig.dayInterval)
        maxWeeks == (xMax + 6) \div 7
        weeks == SelectSeq(steps(maxWeeks, zoomConfig.weekInterval),
                           LAMBDA w : (w * 7 * width) \div xMax <= width)
    IN   [i \in DOMAIN days |-> [op |-> "vline", x |-> dayToX(days[i], width, xMax)]]
      \o [i \in DOMAIN weeks |->
            [op |-> "weekLabel", text |-> weeks[i], x |-> (weeks[i] * 7 * width) \div xMax]]
      \o logGridRows

\* drawAxes on a chart of height ChartHeight
drawAxes(width, xMax, zoomConfig) ==
    LET days == steps(xMax, zoomConfig.dayInterval)
    IN   yAxisLabels
      \o [i \in DOMAIN days |->
            [op |-> "xLabel", text |-> days[i], x |-> dayToX(days[i], width, xMax)]]

\* state.students.find(s => s.id === studentId): the index, 0 for undefined
findStudent(students, studentId) ==
    FirstIndex({i \in DOMAIN students :
                   "id" \in DOMAIN students[i] /\ students[i].id = studentId})

\* the active ids the forEach callback does not return on (lines 462-463, 849-850)
resolvedStudents(st) ==
    SelectSeq(st.activeStudents, LAMBDA id : findStudent(st.students, id) # 0)

\* the operations ops as the 2D context strokes them when it begins with the
\* given lineCap: drawXMark sets ctx.lineCap to "round" (line 701) and nothing
\* sets it back before the ctx.restore() of drawChart (line 470), so every
\* stroke from the first X mark on has round caps; fillText ("?") has no stroke
RECURSIVE stroked(_, _)
stroked(ops, lineCap) ==
    IF ops = <<>> THEN <<>>
    ELSE LET cap == IF Head(ops).op = "xmark" THEN "round" ELSE lineCap
         IN <<IF Head(ops).op = "qmark" THEN Head(ops)
              ELSE Spread(Head(ops), [lineCap |-> cap])>>
            \o stroked(Tail(ops), cap)

\* ctx.lineCap when the k-th call of drawDataSeries begins: "butt" after
\* ctx.save() (line 451) unless an earlier call drew an X mark
lineCapBefore(calls, k) ==
    IF \E j \in 1..(k - 1) : \E i \in DOMAIN calls[j].ops : calls[j].ops[i].op = "xmark"
    THEN "round" ELSE "butt"

\* the calls of drawDataSeries in call order, stroked by one context
strokedSeries(calls) ==
    [k \in DOMAIN calls |->
        [calls[k] EXCEPT !.ops = stroked(@, lineCapBefore(calls, k))]]

\* drawSeries with the metrics of each student taken in the configured order
\* of CONFIG.metricColors, whatever the order of state.activeMetrics
drawSeriesConfigured(st, chartWidth, chartHeight, xMax) ==
    LET resolved == resolvedStudents(st)
        metrics == SelectSeq(metricOrder, LAMBDA m : m \in Range(st.activeMetrics))
    IN strokedSeries(Flatten([i \in DOMAIN resolved |->
                  [j \in DOMAIN metrics |->
                      [studentId |-> resolved[i], metric |-> metrics[j],
                       ops |-> drawDataSeries(st.displayOptions,
                                  st.students[findStudent(st.students, resolved[i])],
                                  metrics[j], chartWidth, chartHeight, xMax)]]]))

\* lines 461-468: one entry per drawDataSeries call, in call order
drawSeries(st, chartWidth, chartHeight, xMax) ==
    LET resolved == resolvedStudents(st)
    IN strokedSeries(Flatten([i \in DOMAIN resolved |->
                  [j \in DOMAIN st.activeMetrics |->
                      [studentId |-> resolved[i], metric |-> st.activeMetrics[j],
                       ops |-> drawDataSeries(st.displayOptions,
                                  st.students[findStudent(st.students, resolved[i])],
                                  st.activeMetrics[j], chartWidth, chartHeight, xMax)]]]))

drawChart(st) ==
    LET zoomConfig == getZoomConfig(st.zoom)
        xMax == st.zoom
    IN [grid |-> drawGrid(ChartWidth, xMax, zoomConfig),
        axes |-> drawAxes(ChartWidth, xMax, zoomConfig),
        series |-> drawSeries(st, ChartWidth, ChartHeight, xMax),
        axisLabels |-> <<"COUNT PER MINUTE", "SUCCESSIVE CALENDAR WEEKS">>]

----------------------------------------------------------------------------
(* Celeration statistics, legend, subtitle *)

\* the weekly celeration as its base-10 logarithm (1/1000 decade): the early
\* returns give the number 1, whose logarithm is 0; Math.pow(10, slope * 7) has
\* logarithm 7 * num / den, and is NaN when the slope is
calculateCeleration(dataPoints) ==
    LET validPoints == SelectSeq(dataPoints, isPositive)
        r == regression([i \in DOMAIN validPoints |-> validPoints[i].day],
                        [i \in DOMAIN validPoints |-> Log10(validPoints[i].value)])
    IN IF Len(dataPoints) < 2 THEN Num(0)
       ELSE IF Len(validPoints) < 2 THEN Num(0)
       ELSE IF r.den = 0 THEN NaN
       ELSE Num((7 * r.num) \div r.den)

\* the text of formatCeleration: its sign character and the logarithm of the
\* number printed after it (value, or 1/value)
formatCeleration(value) ==
    IF value.nan THEN [text |-> "N/A", log |-> 0]
    ELSE IF value.v >= 0 THEN [text |-> "x", log |-> value.v]
    ELSE [text |-> "/", log |-> 0 - value.v]

\* the filter/map of updateStats for one celeration field
statsData(student, field) ==
    LET kept == SelectSeq(student.assessments,
                    LAMBDA a : hasCeleration(a) /\ OrZero(a.celeration, field) > 0)
    IN [i \in DOMAIN kept |->
           [day |-> kept[i].celeration.calendarDay, value |-> kept[i].celeration[field]]]

\* state.students.find(s => state.activeStudents.includes(s.id)): the index
firstActive(st) ==
    FirstIndex({i \in DOMAIN st.students :
                   /\ "id" \in DOMAIN st.students[i]
                   /\ st.students[i].id \in Range(st.activeStudents)})

\* updateStats returns before writing the panel when no roster entry is active
\* although the selection is not empty (line 345); panel is what it finds
updateStats(st, panel) ==
    IF st.activeStudents = <<>> THEN [kind |-> "empty"]
    ELSE IF firstActive(st) = 0 THEN panel
    ELSE LET student == st.students[firstActive(st)]
             correctCeleration == calculateCeleration(statsData(student, "correctPerMinute"))
             errorCeleration == calculateCeleration(statsData(student, "errorsPerMinute"))
         IN [kind |-> "stats",
             name |-> student.name,
             assessments |-> Len(student.assessments),
             summary |-> student.summary,
             correct |-> formatCeleration(correctCeleration),
             correctClass |-> IF ~correctCeleration.nan /\ correctCeleration.v >= 0
                              THEN "positive" ELSE "negative",
             error |-> formatCeleration(errorCeleration),
             errorClass |-> IF ~errorCeleration.nan /\ errorCeleration.v <= 0
                            THEN "positive" ELSE "negative"]

getMetricLabel(metric) ==
    CASE metric = "correctPerMinute" -> "Correct/min"
      [] metric = "errorsPerMinute" -> "Errors/min"
      [] metric = "wpm" -> "Words/min"
      [] metric = "accuracy" -> "Accuracy %"
      [] metric = "prosody" -> "Prosody"
      [] OTHER -> metric

updateLegend(st) ==
    [i \in DOMAIN st.activeMetrics |->
        [symbol |-> IF st.activeMetrics[i] = "errorsPerMinute" THEN "X" ELSE "dot",
         label |-> getMetricLabel(st.activeMetrics[i])]]

updateChartSubtitle(st) == [label |-> getZoomConfig(st.zoom).label, days |-> st.zoom]

----------------------------------------------------------------------------
(* Hit testing *)

\* seriesCandidates without the skip of values <= 0 (line 857), such a point
\* placed where its marker is drawn
seriesCandidatesAll(student, metric, chartWidth, chartHeight, xMax) ==
    LET dataPoints == getDataPoints(student, metric)
        minDay == IF Len(dataPoints) > 0
                  THEN MinOf({dataPoints[i].day : i \in DOMAIN dataPoints}) ELSE 0
        kept == SelectSeq(dataPoints, LAMBDA point : ~(point.day - minDay > xMax))
    IN [i \in DOMAIN kept |->
           [studentId |-> student.id, name |-> student.name, metric |-> metric,
            point |-> kept[i],
            x |-> dayToX(kept[i].day - minDay, chartWidth, xMax),
            y |-> valueToY(IF kept[i].value > 0 THEN kept[i].value ELSE Sentinel,
                           chartHeight)]]

\* lines 853-864: the points of one (student, metric) pair that reach the
\* distance test, in iteration order, with their pixel position
seriesCandidates(student, metric, chartWidth, chartHeight, xMax) ==
    LET dataPoints == getDataPoints(student, metric)
        minDay == IF Len(dataPoints) > 0
                  THEN MinOf({dataPoints[i].day : i \in DOMAIN dataPoints}) ELSE 0
        kept == SelectSeq(dataPoints,
                    LAMBDA point : ~(point.value <= 0) /\ ~(point.day - minDay > xMax))
    IN [i \in DOMAIN kept |->
           [studentId |-> student.id, name |-> student.name, metric |-> metric,
            point |-> kept[i],
            x |-> dayToX(kept[i].day - minDay, chartWidth, xMax),
            y |-> valueToY(kept[i].value, chartHeight)]]

\* lines 848-879: every candidate, in iteration order
hitCandidates(st, chartWidth, chartHeight, xMax) ==
    LET resolved == resolvedStudents(st)
    IN Flatten(Flatten([i \in DOMAIN resolved |->
                  [j \in DOMAIN st.activeMetrics |->
                      seriesCandidates(st.students[findStudent(st.students, resolved[i])],
                                       st.activeMetrics[j],
                                       chartWidth, chartHeight, xMax)]]))

\* the square of dist (line 865); dist < d is decided on the squares
dist2(c, x, y) == (x - c.x) * (x - c.x) + (y - c.y) * (y - c.y)

\* isCloser with <= for < in the comparison with closestDist: of candidates at
\* equal distance the last one wins
isCloserOrEqual(c, x, y, closest) ==
    /\ (closest = <<>> \/ dist2(c, x, y) <= dist2(closest[1], x, y))
    /\ dist2(c, x, y) < PickRadius * PickRadius

\* line 867
isCloser(c, x, y, closest) ==
    /\ (closest = <<>> \/ dist2(c, x, y) < dist2(closest[1], x, y))
    /\ dist2(c, x, y) < PickRadius * PickRadius

\* the closestPoint left by the loop over cands, as <<>> (null) or <<c>>
RECURSIVE closestPoint(_, _, _, _)
closestPoint(cands, x, y, closest) ==
    IF cands = <<>> THEN closest
    ELSE closestPoint(Tail(cands), x, y,
                      IF isCloser(Head(cands), x, y, closest)
                      THEN <<Head(cands)>> ELSE closest)

outsideChart(x, y, chartWidth, chartHeight) ==
    x < 0 \/ x > chartWidth \/ y < 0 \/ y > chartHeight

----------------------------------------------------------------------------
(* State after construction (lines 64-90) *)

initialState ==
    [students |-> <<>>,
     activeStudents |-> <<>>,
     activeMetrics |-> <<"correctPerMinute", "errorsPerMinute">>,
     displayOptions |-> [showCelerationLines |-> TRUE, showDataPoints |-> TRUE,
                         showRecordFloor |-> FALSE, connectPoints |-> TRUE],
     zoom |-> 7]

Init ==
    /\ state = initialState
    /\ canvas = drawChart(initialState)
    /\ statsPanel = [kind |-> "initial"]
    /\ legend = <<>>
    /\ subtitle = [label |-> "initial", days |-> 0]
    /\ tooltip = [visible |-> FALSE, content |-> <<>>]
    /\ pointer = [x |-> 0, y |-> 0]

----------------------------------------------------------------------------
(* Handlers *)

hasId(s, id) == "id" \in DOMAIN s /\ s.id = id

\* item.dataset.id / btn.dataset.id: the id as rendered into the attribute
datasetId(s) == IF "id" \in DOMAIN s THEN s.id ELSE "undefined"

\* data.student.id || `student-${Date.now()}`; now is the generated string
studentIdOf(data, now) == IF "id" \in DOMAIN data.student THEN data.student.id ELSE now

mergedStudent(existing, data) ==
    Spread(Spread(existing, data.student),
           [assessments |-> data.assessments, summary |-> data.summary])

newStudent(data, colorIndex) ==
    Spread(Spread(data.student,
                  [assessments |-> data.assessments, summary |-> data.summary]),
           [color |-> studentColors[colorIndex + 1]])

\* lines 250-274: the state object after the ingestion of a well-formed record
ingested(st, data, now) ==
    LET studentId == studentIdOf(data, now)
        existingIndex == findStudent(st.students, studentId)
    IN IF existingIndex # 0
       THEN [st EXCEPT !.students[existingIndex] = mergedStudent(@, data)]
       ELSE [st EXCEPT
               !.students = Append(@, newStudent(data, Len(@) % Len(studentColors))),
               !.activeStudents = Append(@, studentId)]

processStudentData(data, now) ==
    /\ "student" \in DOMAIN data /\ "assessments" \in DOMAIN data
    /\ \/ findStudent(state.students, studentIdOf(data, now)) # 0
       \/ Len(state.students) < MaxStudents
    /\ state' = ingested(state, data, now)
    /\ canvas' = drawChart(state')
    /\ statsPanel' = updateStats(state', statsPanel)
    /\ legend' = updateLegend(state')
    /\ subtitle' = updateChartSubtitle(state')
    /\ UNCHANGED <<tooltip, pointer>>

studentItemClick(i) ==
    /\ i \in DOMAIN state.students
    /\ LET id == datasetId(state.students[i])
       IN state' = [state EXCEPT !.activeStudents =
                        IF id \in Range(@)
                        THEN SelectSeq(@, LAMBDA a : a # id)
                        ELSE Append(@, id)]
    /\ canvas' = drawChart(state')
    /\ statsPanel' = updateStats(state', statsPanel)
    /\ legend' = updateLegend(state')
    /\ UNCHANGED <<subtitle, tooltip, pointer>>

removeBtnClick(i) ==
    /\ i \in DOMAIN state.students
    /\ LET id == datasetId(state.students[i])
       IN state' = [state EXCEPT
                        !.students = SelectSeq(@, LAMBDA s : ~hasId(s, id)),
                        !.activeStudents = SelectSeq(@, LAMBDA a : a # id)]
    /\ canvas' = drawChart(state')
    /\ statsPanel' = updateStats(state', statsPanel)
    /\ legend' = updateLegend(state')
    /\ UNCHANGED <<subtitle, tooltip, pointer>>

metricChange(metric, checked) ==
    /\ state' = [state EXCEPT !.activeMetrics =
                    IF checked
                    THEN (IF metric \in Range(@) THEN @ ELSE Append(@, metric))
                    ELSE SelectSeq(@, LAMBDA m : m # metric)]
    /\ canvas' = drawChart(state')
    /\ legend' = updateLegend(state')
    /\ UNCHANGED <<statsPanel, subtitle, tooltip, pointer>>

displayOptionChange(option, checked) ==
    /\ state' = [state EXCEPT !.displayOptions[option] = checked]
    /\ canvas' = drawChart(state')
    /\ UNCHANGED <<statsPanel, legend, subtitle, tooltip, pointer>>

showCelerationLinesChange(checked) == displayOptionChange("showCelerationLines", checked)
showDataPointsChange(checked) == displayOptionChange("showDataPoints", checked)
showRecordFloorChange(checked) == displayOptionChange("showRecordFloor", checked)
connectPointsChange(checked) == displayOptionChange("connectPoints", checked)

setZoom(days) ==
    /\ state' = [state EXCEPT !.zoom = days]
    /\ canvas' = drawChart(state')
    /\ subtitle' = updateChartSubtitle(state')
    /\ UNCHANGED <<statsPanel, legend, tooltip, pointer>>

\* lines 845-879: closestPoint for the pointer at (x, y), <<>> for null
nearestPoint(st, x, y) ==
    closestPoint(hitCandidates(st, ChartWidth, ChartHeight, st.zoom), x, y, <<>>)

handleMouseMove(x, y) ==
    /\ pointer' = [x |-> x, y |-> y]
    /\ tooltip' =
          IF outsideChart(x, y, ChartWidth, ChartHeight)
          THEN [tooltip EXCEPT !.visible = FALSE]
          ELSE IF nearestPoint(state, x, y) # <<>>
               THEN [visible |-> TRUE, content |-> nearestPoint(state, x, y)]
               ELSE [tooltip EXCEPT !.visible = FALSE]
    /\ UNCHANGED <<state, canvas, statsPanel, legend, subtitle>>

mouseLeave ==
    /\ tooltip' = [tooltip EXCEPT !.visible = FALSE]
    /\ UNCHANGED <<state, canvas, statsPanel, legend, subtitle, pointer>>

----------------------------------------------------------------------------
(* Inputs *)

\* an assessment as the upstream producer exports it
assessment(day, correct, errors) ==
    [celeration |-> [calendarDay |-> day, date |-> ToString(day),
                     correctPerMinute |-> correct, errorsPerMinute |-> errors]]

ListsOf(U, n) == UNION {[1..k -> U] : k \in 0..n}

\* the strings `student-${Date.now()}` can yield; two ingestions may fall into
\* the same millisecond
GeneratedIds == {"student-1", "student-2"}

\* the metric checkboxes the roster runs operate
MetricCheckboxes == {"correctPerMinute", "errorsPerMinute"}

\* two exports of the producer for one student: a first one and a later,
\* longer one
firstExport ==
    [assessments |-> <<assessment(10, One, One)>>,
     summary |-> [averages |-> [accuracy |-> 90, wpm |-> 100]]]

laterExport ==
    [assessments |-> <<assessment(10, One, One), assessment(17, 10 * One, One)>>,
     summary |-> [averages |-> [accuracy |-> 95, wpm |-> 120]]]

\* records with an id, a record of another student, a record without an id,
\* and a record whose student object carries a color of its own
RosterRecords ==
    {Spread([student |-> [id |-> "s1", name |-> "Ann"]], firstExport),
     Spread([student |-> [id |-> "s1", name |-> "Ann"]], laterExport),
     Spread([student |-> [id |-> "s1", name |-> "Ann", color |-> "#000000"]], laterExport),
     Spread([student |-> [id |-> "s2", name |-> "Bob"]], firstExport),
     Spread([student |-> [name |-> "Cy"]], firstExport)}

----------------------------------------------------------------------------
(* The dashboard driven by ingestions, selection clicks, removals and metric
   checkboxes *)

Next ==
    \/ \E data \in RosterRecords, now \in GeneratedIds : processStudentData(data, now)
    \/ \E i \in 1..MaxStudents : studentItemClick(i)
    \/ \E i \in 1..MaxStudents : removeBtnClick(i)
    \/ \E metric \in MetricCheckboxes, checked \in BOOLEAN : metricChange(metric, checked)

Spec == Init /\ [][Next]_vars

----------------------------------------------------------------------------
(* One student's series under every zoom request *)

\* the zoom buttons (7, 30, 90, 140) and a request that is no defined span
ZoomRequests == {7, 30, 90, 140, 14}

\* an assessment without celeration data
plainAssessment == [performance |-> [wpm |-> 100 * One, accuracy |-> 10 * One]]

\* calendar days 0, 7 and 12 days after the first, each with a zero and a
\* positive correct rate (1, 10 and 1 per minute)
SeriesAssessments ==
    {assessment(10, 0, 0), assessment(10, One, 0),
     assessment(17, 0, 0), assessment(17, 10 * One, 0),
     assessment(22, 0, 0), assessment(22, One, 0),
     plainAssessment}

SeriesRecords ==
    {[student |-> [id |-> "s1", name |-> "Ann"],
      assessments |-> as,
      summary |-> [averages |-> [accuracy |-> 90, wpm |-> 100]]] :
        as \in ListsOf(SeriesAssessments, MaxAssessments)}

NextSeries ==
    \/ \E data \in SeriesRecords :
          state.students = <<>> /\ processStudentData(data, "student-1")
    \/ \E days \in ZoomRequests : setZoom(days)

SpecSeries == Init /\ [][NextSeries]_vars

----------------------------------------------------------------------------
(* The pointer over the chart of up to two students *)

MaxHitAssessments == 2

\* day 10 with correct and error rate 1 (both markers on one pixel), and day
\* 12 with correct rate 1 and no errors
HitAssessments == {assessment(10, One, One), assessment(12, One, 0)}

HitRecords ==
    {[student |-> [id |-> id, name |-> id],
      assessments |-> as,
      summary |-> [averages |-> [accuracy |-> 90, wpm |-> 100]]] :
        id \in {"h1", "h2"}, as \in ListsOf(HitAssessments, MaxHitAssessments)}

\* pointer positions relative to the plot area (1/100 px): on the day-0 point,
\* 10, 18 and 30 px to its right, 20 and 25 px below it, 1 px left of the plot
\* area, and far from every point
HitPointers ==
    {[x |-> 0, y |-> 3000], [x |-> 1000, y |-> 3000], [x |-> 1800, y |-> 3000],
     [x |-> 3000, y |-> 3000], [x |-> 0, y |-> 5000], [x |-> 0, y |-> 5500],
     [x |-> -100, y |-> 3000], [x |-> 9000, y |-> 500]}

NextHit ==
    \/ \E data \in HitRecords :
          /\ findStudent(state.students, data.student.id) = 0
          /\ processStudentData(data, "student-1")
    \/ \E p \in HitPointers : handleMouseMove(p.x, p.y)
    \/ mouseLeave

SpecHit == Init /\ [][NextHit]_vars

----------------------------------------------------------------------------
(* Students registered one after the other, earlier ones removed in between *)

\* the ids in the order of their first ingestion, one more than the palette
\* has colors
ColorIds == <<"c1", "c2", "c3", "c4", "c5", "c6", "c7", "c8", "c9">>

ColorRecords ==
    {Spread([student |-> [id |-> ColorIds[n], name |-> ColorIds[n]]], export) :
        n \in DOMAIN ColorIds, export \in {firstExport, laterExport}}

\* the position in ColorIds of the latest registered student: every student
\* but the latest may be removed, so the latest is in the roster
latestRegistered ==
    MaxOf({0} \cup {n \in DOMAIN ColorIds : findStudent(state.students, ColorIds[n]) # 0})

NextColors ==
    \/ \E n \in DOMAIN ColorIds, data \in ColorRecords :
          /\ data.student.id = ColorIds[n]
          /\ findStudent(state.students, ColorIds[n]) # 0 \/ n = latestRegistered + 1
          /\ processStudentData(data, "student-1")
    \/ \E i \in 1..MaxStudents :
          /\ i \in DOMAIN state.students
          /\ state.students[i].id # ColorIds[latestRegistered]
          /\ removeBtnClick(i)
    \/ \E i \in 1..MaxStudents : studentItemClick(i)

SpecColors == Init /\ [][NextColors]_vars

----------------------------------------------------------------------------
(* One student's series under every combination of the display options *)

\* an assessment with a counting time (minutes, in units of 1/10000)
timedAssessment(day, correct, errors, countingTimeMin) ==
    [celeration |-> Spread(assessment(day, correct, errors).celeration,
                           [countingTimeMin |-> countingTimeMin])]

\* a one-minute timing on day 0, an untimed one 7 days later, a one-minute
\* timing without a correct response 12 days later
OptionAssessments ==
    {timedAssessment(10, One, One, One),
     assessment(17, 10 * One, 0),
     timedAssessment(22, 0, One, One)}

OptionRecords ==
    {[student |-> [id |-> "s1", name |-> "Ann"],
      assessments |-> as,
      summary |-> [averages |-> [accuracy |-> 90, wpm |-> 100]]] :
        as \in ListsOf(OptionAssessments, MaxAssessments)}

NextOptions ==
    \/ \E data \in OptionRecords :
          state.students = <<>> /\ processStudentData(data, "student-1")
    \/ \E checked \in BOOLEAN : showCelerationLinesChange(checked)
    \/ \E checked \in BOOLEAN : showDataPointsChange(checked)
    \/ \E checked \in BOOLEAN : showRecordFloorChange(checked)
    \/ \E checked \in BOOLEAN : connectPointsChange(checked)
    \/ \E days \in {7, 30} : setZoom(days)

SpecOptions == Init /\ [][NextOptions]_vars

----------------------------------------------------------------------------
(* Vocabulary of the properties *)

\* the five known metric identifiers and one that is not known
AllMetrics ==
    {"correctPerMinute", "errorsPerMinute", "wpm", "accuracy", "prosody", "other"}

DefinedSpans == {7, 30, 90, 140}

IsMarker(o) == o.op \in {"dot", "xmark", "qmark"}
IsTrend(o) == o.op = "trend"
IsPolyline(o) == o.op = "polyline"

\* the roster entry a drawn series belongs to
StudentOf(entry) == state.students[findStudent(state.students, entry.studentId)]

\* the assessments of a student that carry celeration data, in ingestion order
Charted(student) == SelectSeq(student.assessments, hasCeleration)

\* the least calendar day of a student's charted assessments
FirstDay(student) ==
    MinOf({Charted(student)[i].celeration.calendarDay : i \in DOMAIN Charted(student)})

\* the extracted points of a series that lie inside the zoom span xMax, in
\* extraction order, each with its day offset from the student's first day
InSpan(student, metric, xMax) ==
    LET pts == getDataPoints(student, metric)
        kept == SelectSeq(pts, LAMBDA p : p.day - FirstDay(student) <= xMax)
    IN [i \in DOMAIN kept |->
           [point |-> kept[i], offset |-> kept[i].day - FirstDay(student)]]

Pixel(o) == <<o.x, o.y>>

----------------------------------------------------------------------------
(* C9 *)

\* C9: for every student and every metric the extracted series is sorted
\* ascending by day, points of equal day keep their ingestion order, the first
\* point's normalized day is 0, every normalized day is the day minus the least
\* day of the whole series, and that same offset places the point on the X axis
\* in the composer (at the current zoom) and in the hit-tester (at every zoom).
C9_SeriesSortedAndAnchored ==
    \A k \in DOMAIN state.students : \A metric \in AllMetrics :
        LET student == state.students[k]
            pts == getDataPoints(student, metric)
            norm == normalizePoints(pts)
            ingestion == [i \in DOMAIN Charted(student) |->
                             dataPoint(Charted(student)[i], metric)]
        IN /\ Len(pts) = Len(ingestion)
           /\ \A i, j \in DOMAIN pts : i < j => pts[i].day <= pts[j].day
           /\ \A d \in {pts[i].day : i \in DOMAIN pts} :
                 SelectSeq(pts, LAMBDA p : p.day = d)
                    = SelectSeq(ingestion, LAMBDA p : p.day = d)
           /\ pts # <<>> =>
                 /\ norm[1].normalizedDay = 0
                 /\ \A i \in DOMAIN pts :
                       norm[i].normalizedDay = pts[i].day - FirstDay(student)
                 /\ \A z \in ZoomRequests :
                       LET cands == seriesCandidates(student, metric,
                                                     ChartWidth, ChartHeight, z)
                       IN \A i \in DOMAIN cands :
                             cands[i].x = ((cands[i].point.day - FirstDay(student))
                                              * ChartWidth) \div z

\* C9, composer side: every drawn series has one marker per extracted point
\* inside the zoom span, in extraction order, at the X position of the
\* point's offset from the first day of the whole series.
C9_MarkersAtOffsets ==
    \A e \in DOMAIN canvas.series :
        LET entry == canvas.series[e]
            inside == InSpan(StudentOf(entry), entry.metric, state.zoom)
            markers == SelectSeq(entry.ops, IsMarker)
        IN state.displayOptions.showDataPoints =>
              /\ Len(markers) = Len(inside)
              /\ \A i \in DOMAIN markers :
                    markers[i].x = (inside[i].offset * ChartWidth) \div state.zoom

C9_Theorem == C9_SeriesSortedAndAnchored /\ C9_MarkersAtOffsets

\* a student ingested out of day order, with two assessments on the first
\* day, drawn at a zoom that hides the last point
C9_Witness ==
    /\ state.zoom = 7
    /\ \E k \in DOMAIN state.students :
          LET as == state.students[k].assessments
          IN /\ Len(as) = 3
             /\ \A i \in DOMAIN as : hasCeleration(as[i])
             /\ as[1].celeration.calendarDay = 22
             /\ as[2].celeration.calendarDay = 10
             /\ as[3].celeration.calendarDay = 10
             /\ as[2] # as[3]
    /\ \E e \in DOMAIN canvas.series :
          Len(SelectSeq(canvas.series[e].ops, IsMarker)) = 2

----------------------------------------------------------------------------
(* C8 *)

\* the positive points of a series inside the zoom span
PositiveInSpan(student, metric, xMax) ==
    SelectSeq(InSpan(student, metric, xMax), LAMBDA q : q.point.value > 0)

\* C8: every drawing step of a series uses exactly the points whose
\* normalized day is at most the zoom span: the markers are those points, the
\* connecting line runs through the positive ones among them, and the trend
\* segment is fitted to them and drawn from startX = max(0, minX - e) to
\* endX = min(xMax, maxX + e), e = min(3, xMax / 10), so that
\* 0 <= startX <= endX <= xMax (abscissas in 1/10 day).
C8_Theorem ==
    \A e \in DOMAIN canvas.series :
        LET entry == canvas.series[e]
            xMax == state.zoom
            inside == InSpan(StudentOf(entry), entry.metric, xMax)
            positive == PositiveInSpan(StudentOf(entry), entry.metric, xMax)
            markers == SelectSeq(entry.ops, IsMarker)
            lines == SelectSeq(entry.ops, IsPolyline)
            trends == SelectSeq(entry.ops, IsTrend)
            offsets == {positive[i].offset : i \in DOMAIN positive}
            ext == IF 30 <= xMax THEN 30 ELSE xMax
            lo == 10 * MinOf(offsets) - ext
            hi == 10 * MaxOf(offsets) + ext
            startX == IF lo >= 0 THEN lo ELSE 0
            endX == IF hi <= 10 * xMax THEN hi ELSE 10 * xMax
        IN /\ [i \in DOMAIN markers |-> markers[i].x]
                = [i \in DOMAIN inside |-> (inside[i].offset * ChartWidth) \div xMax]
           /\ \A l \in DOMAIN lines :
                 [i \in DOMAIN lines[l].path |-> lines[l].path[i].x]
                    = [i \in DOMAIN positive |->
                          (positive[i].offset * ChartWidth) \div xMax]
           /\ Len(trends) = (IF Len(positive) >= 2 THEN 1 ELSE 0)
           /\ \A t \in DOMAIN trends :
                 /\ 0 <= startX /\ startX <= endX /\ endX <= 10 * xMax
                 /\ trends[t].x1 = (startX * ChartWidth) \div (10 * xMax)
                 /\ trends[t].x2 = (endX * ChartWidth) \div (10 * xMax)
                 /\ 0 <= trends[t].x1 /\ trends[t].x1 <= trends[t].x2
                 /\ trends[t].x2 <= ChartWidth

\* normalized days 0, 7 and 12 at zoom 7: two markers, and a trend whose end,
\* day 7.7 unclipped, is drawn at day 7, the right edge
C8_Witness ==
    /\ state.zoom = 7
    /\ \E e \in DOMAIN canvas.series :
          LET entry == canvas.series[e]
              all == getDataPoints(StudentOf(entry), entry.metric)
          IN /\ [i \in DOMAIN all |-> all[i].day] = <<10, 17, 22>>
             /\ Len(SelectSeq(entry.ops, IsMarker)) = 2
             /\ \E i \in DOMAIN entry.ops :
                   IsTrend(entry.ops[i]) /\ entry.ops[i].x2 = ChartWidth

----------------------------------------------------------------------------
(* C5 *)

\* C5 as claimed: with showCelerationLines on, a series whose positive points
\* inside the zoom span all lie on one normalized day gets no trend line, and
\* no trend line is ever drawn with a NaN coordinate.
C5_NoTrendOnDegenerateSpread ==
    \A e \in DOMAIN canvas.series :
        LET entry == canvas.series[e]
            positive == PositiveInSpan(StudentOf(entry), entry.metric, state.zoom)
            trends == SelectSeq(entry.ops, IsTrend)
        IN /\ (\A i, j \in DOMAIN positive : positive[i].offset = positive[j].offset)
                 => trends = <<>>
           /\ \A t \in DOMAIN trends : ~trends[t].y1.nan /\ ~trends[t].y2.nan


\* two positive points on the first day: the regression denominator is 0
C5_Degenerate ==
    \E e \in DOMAIN canvas.series :
        LET positive == PositiveInSpan(StudentOf(canvas.series[e]),
                                       canvas.series[e].metric, state.zoom)
        IN /\ Len(positive) >= 2
           /\ \A i, j \in DOMAIN positive : positive[i].offset = positive[j].offset

----------------------------------------------------------------------------
(* C7 *)

\* the path of the connecting line of a drawn series, <<>> when none is drawn
PathOf(entry) ==
    LET lines == SelectSeq(entry.ops, IsPolyline)
    IN IF lines = <<>> THEN <<>> ELSE lines[1].path

\* the pixel of an in-span point with a positive value
PixelOf(q, xMax) ==
    <<(q.offset * ChartWidth) \div xMax, valueToY(q.point.value, ChartHeight)>>

\* the path has a line segment from pixel a to pixel b
Joined(path, a, b) ==
    \E k \in DOMAIN path :
        /\ k + 1 \in DOMAIN path
        /\ path[k + 1].cmd = "lineTo"
        /\ Pixel(path[k]) = a /\ Pixel(path[k + 1]) = b

\* C7 as claimed: with connectPoints on, when a point with a value <= 0 lies
\* between two positive points of the visible series, no line segment joins
\* the positive point before it to the positive point after it.
C7_ZeroBreaksLine ==
    \A e \in DOMAIN canvas.series :
        LET entry == canvas.series[e]
            inside == InSpan(StudentOf(entry), entry.metric, state.zoom)
        IN \A a, b \in DOMAIN inside :
              (/\ a < b
               /\ inside[a].point.value > 0 /\ inside[b].point.value > 0
               /\ \A j \in (a + 1)..(b - 1) : inside[j].point.value <= 0
               /\ b > a + 1)
              => ~Joined(PathOf(entry), PixelOf(inside[a], state.zoom),
                         PixelOf(inside[b], state.zoom))

\* C7 as amended: with connectPoints on and at least two visible points, the
\* connecting line is one path through the positive visible points in order,
\* begun at the first and continued by a line segment to every later one;
\* points with a value <= 0 are left out, so the positive points on either
\* side of one are joined directly.
C7_Theorem ==
    \A e \in DOMAIN canvas.series :
        LET entry == canvas.series[e]
            inside == InSpan(StudentOf(entry), entry.metric, state.zoom)
            positive == PositiveInSpan(StudentOf(entry), entry.metric, state.zoom)
            lines == SelectSeq(entry.ops, IsPolyline)
        IN /\ Len(lines) = (IF state.displayOptions.connectPoints /\ Len(inside) > 1
                            THEN 1 ELSE 0)
           /\ \A l \in DOMAIN lines :
                 /\ [i \in DOMAIN lines[l].path |-> Pixel(lines[l].path[i])]
                       = [i \in DOMAIN positive |-> PixelOf(positive[i], state.zoom)]
                 /\ \A i \in DOMAIN lines[l].path :
                       lines[l].path[i].cmd = (IF i = 1 THEN "moveTo" ELSE "lineTo")

\* a visible series (positive, 0, positive) whose first and third points are
\* joined by a segment
C7_Witness ==
    \E e \in DOMAIN canvas.series :
        LET entry == canvas.series[e]
            inside == InSpan(StudentOf(entry), entry.metric, state.zoom)
        IN /\ Len(inside) = 3
           /\ inside[1].point.value > 0
           /\ inside[2].point.value = 0
           /\ inside[3].point.value > 0
           /\ Joined(PathOf(entry), PixelOf(inside[1], state.zoom),
                     PixelOf(inside[3], state.zoom))

----------------------------------------------------------------------------
(* C10 *)

\* C10 as claimed: when the zoom is none of the defined spans, the chart is
\* the chart of the largest defined span, 140 days (X scale, visible points and
\* tick intervals), and so are the hit-tester's candidates.
C10_UnknownZoomFallsBack ==
    state.zoom \notin DefinedSpans =>
        /\ canvas = drawChart([state EXCEPT !.zoom = 140])
        /\ hitCandidates(state, ChartWidth, ChartHeight, state.zoom)
              = hitCandidates(state, ChartWidth, ChartHeight, 140)

\* C10, the part the code has: the tick intervals of an unknown zoom are those
\* of the 140-day span
C10_TickIntervalsFallBack ==
    state.zoom \notin DefinedSpans =>
        /\ getZoomConfig(state.zoom) = zoomLevels[140]
        /\ subtitle.label = "Full"

----------------------------------------------------------------------------
(* C3 *)

\* the (point, x, y) triples of the markers of a drawn series, in drawing
\* order: of every marker, or of those whose point has a positive value
MarkerTriples(entry, positiveOnly) ==
    LET inside == InSpan(StudentOf(entry), entry.metric, state.zoom)
        markers == SelectSeq(entry.ops, IsMarker)
        chosen == SelectSeq([i \in DOMAIN inside |-> i],
                            LAMBDA i : positiveOnly => isPositive(inside[i].point))
    IN [i \in DOMAIN chosen |->
           <<inside[chosen[i]].point, markers[chosen[i]].x, markers[chosen[i]].y>>]

\* the (point, x, y) triples of the hit-tester's candidates for a drawn series
CandidateTriples(entry) ==
    LET cands == seriesCandidates(StudentOf(entry), entry.metric,
                                  ChartWidth, ChartHeight, state.zoom)
    IN [i \in DOMAIN cands |-> <<cands[i].point, cands[i].x, cands[i].y>>]

\* C3 as claimed: with showDataPoints on, the hit-tester's candidates of a
\* series are exactly its drawn markers, point for point and pixel for pixel.
C3_CandidatesAreMarkers ==
    state.displayOptions.showDataPoints =>
        \A e \in DOMAIN canvas.series :
            CandidateTriples(canvas.series[e])
               = MarkerTriples(canvas.series[e], FALSE)

\* C3 as amended: with showDataPoints on, the hit-tester's candidates of a
\* series are exactly the drawn markers of its points with a positive value,
\* at the marker's pixel; the marker of a point with a value <= 0 is no
\* candidate.  The candidates are visited series by series in drawing order.
C3_Theorem ==
    state.displayOptions.showDataPoints =>
        /\ \A e \in DOMAIN canvas.series :
              CandidateTriples(canvas.series[e])
                 = MarkerTriples(canvas.series[e], TRUE)
        /\ LET cands == hitCandidates(state, ChartWidth, ChartHeight, state.zoom)
           IN [i \in DOMAIN cands |-> <<cands[i].point, cands[i].x, cands[i].y>>]
                 = Flatten([e \in DOMAIN canvas.series |->
                               MarkerTriples(canvas.series[e], TRUE)])

\* a drawn series with a "?" marker for a zero value next to a positive point
\* that is a candidate
C3_Witness ==
    /\ state.displayOptions.showDataPoints
    /\ \E e \in DOMAIN canvas.series :
          /\ \E i \in DOMAIN canvas.series[e].ops : canvas.series[e].ops[i].op = "qmark"
          /\ CandidateTriples(canvas.series[e]) # <<>>

----------------------------------------------------------------------------
(* C6 *)

\* the positive values of one celeration field of the student the stats panel
\* shows
StatsValues(field) == statsData(state.students[firstActive(state)], field)

\* C6 as claimed: when the student shown has fewer than 2 positive correct
\* rates (or error rates), the panel shows that celeration as not available.
C6_TooFewPointsShowNA ==
    (statsPanel.kind = "stats" /\ firstActive(state) # 0) =>
        /\ Len(StatsValues("correctPerMinute")) < 2 => statsPanel.correct.text = "N/A"
        /\ Len(StatsValues("errorsPerMinute")) < 2 => statsPanel.error.text = "N/A"

----------------------------------------------------------------------------
(* C1 *)

\* C1: a step that ingests a record whose student id is already in the roster
\* replaces that student's assessments and summary by the record's and leaves
\* the student's color, the active selection, the roster size and every other
\* student as they were, whatever the record's student object holds.
C1_MergeKeepsColorAndSelection ==
    [][\A data \in RosterRecords, now \in GeneratedIds :
          LET i == findStudent(state.students, studentIdOf(data, now))
          IN (i # 0 /\ state' = ingested(state, data, now)) =>
                /\ state'.students[i].assessments = data.assessments
                /\ state'.students[i].summary = data.summary
                /\ state'.students[i].color = state.students[i].color
                /\ state'.activeStudents = state.activeStudents
                /\ Len(state'.students) = Len(state.students)
                /\ \A j \in DOMAIN state.students :
                      j # i => state'.students[j] = state.students[j]]_vars

----------------------------------------------------------------------------
(* C2 *)

\* the (student id, metric) pairs of the drawn series, in drawing order
DrawnOrder == [e \in DOMAIN canvas.series |->
                  <<canvas.series[e].studentId, canvas.series[e].metric>>]

\* the index of a metric in the configured order
Rank(metric) == CHOOSE i \in DOMAIN metricOrder : metricOrder[i] = metric

\* C2 as claimed: the series of one student are drawn in the configured metric
\* order, whatever the order of the metric toggles.
C2_ConfiguredMetricOrder ==
    \A a, b \in DOMAIN canvas.series :
        (a < b /\ canvas.series[a].studentId = canvas.series[b].studentId)
            => Rank(canvas.series[a].metric) < Rank(canvas.series[b].metric)

\* C2 as amended: the series are drawn for each active student present in the
\* roster, in the order the students were selected, and inside each student
\* for each active metric in the order of state.activeMetrics; that list
\* starts in configured order, unchecking a metric removes it and checking it
\* again appends it at the end, so the order depends on the toggle order.
C2_Theorem ==
    /\ [](DrawnOrder = Flatten([i \in DOMAIN resolvedStudents(state) |->
                                  [j \in DOMAIN state.activeMetrics |->
                                      <<resolvedStudents(state)[i],
                                        state.activeMetrics[j]>>]]))
    /\ [][\/ state'.activeMetrics = state.activeMetrics
          \/ \E m \in Range(state.activeMetrics) :
                state'.activeMetrics = SelectSeq(state.activeMetrics, LAMBDA x : x # m)
          \/ \E m \in Range(metricOrder) \ Range(state.activeMetrics) :
                state'.activeMetrics = Append(state.activeMetrics, m)]_vars

\* after unchecking and re-checking the correct rate, a student's error series
\* is drawn before the correct series
C2_Witness ==
    /\ state.activeMetrics = <<"errorsPerMinute", "correctPerMinute">>
    /\ Len(DrawnOrder) >= 2
    /\ DrawnOrder[1][1] = DrawnOrder[2][1]
    /\ DrawnOrder[1][2] = "errorsPerMinute"
    /\ DrawnOrder[2][2] = "correctPerMinute"

----------------------------------------------------------------------------
(* C4 *)

\* the hit-tester's candidates in iteration order
Candidates == hitCandidates(state, ChartWidth, ChartHeight, state.zoom)

\* tip is what a mouse move to (x, y) is to leave in the tooltip:
\* hidden when the pointer is outside the plot area or no candidate is
\* strictly less than 20 px away, else the first of the nearest candidates
Picked(x, y, tip) ==
    LET cands == Candidates
        d == [i \in DOMAIN cands |-> dist2(cands[i], x, y)]
        within == {i \in DOMAIN cands : d[i] < PickRadius * PickRadius}
    IN IF outsideChart(x, y, ChartWidth, ChartHeight) \/ within = {}
       THEN ~tip.visible
       ELSE /\ tip.visible
            /\ \E i \in within :
                  /\ tip.content = <<cands[i]>>
                  /\ \A j \in DOMAIN cands : d[j] >= d[i] /\ (d[j] = d[i] => i <= j)

\* C4: a mouse move shows a candidate only if it is strictly less than 20 px
\* from the pointer and no candidate is strictly closer; of the candidates at
\* the least distance it shows the first in iteration order (active students,
\* then active metrics, then ascending day); it shows none when no candidate
\* is within 20 px (one at exactly 20 px is not shown) and when the pointer is
\* outside the plot area, whatever lies near it.
C4_Theorem ==
    [][\A p \in HitPointers :
          handleMouseMove(p.x, p.y) => Picked(p.x, p.y, tooltip')]_vars

\* the pointer midway between two points 18 px away on either side: the
\* tooltip shows the first candidate, and a later one is as near
C4_Witness ==
    /\ pointer = [x |-> 1800, y |-> 3000]
    /\ tooltip.visible
    /\ tooltip.content = <<Candidates[1]>>
    /\ \E j \in DOMAIN Candidates :
          /\ Candidates[j].point.day # Candidates[1].point.day
          /\ dist2(Candidates[j], 1800, 3000) = dist2(Candidates[1], 1800, 3000)

----------------------------------------------------------------------------
(* C11 *)

\* the number of students registered before the student with this id
RegistrationIndex(id) == (CHOOSE n \in DOMAIN ColorIds : ColorIds[n] = id) - 1

\* C11: every student in the roster has the palette color of its registration
\* index (the number of students registered before it, modulo the palette
\* size), at its first ingestion and ever after, whatever was merged, toggled
\* or removed in between; students registered one after the other within one
\* turn of the palette therefore have different colors.
C11_ColorByRegistrationIndex ==
    /\ \A i \in DOMAIN state.students :
          state.students[i].color =
             studentColors[(RegistrationIndex(state.students[i].id)
                               % Len(studentColors)) + 1]
    /\ \A i, j \in DOMAIN state.students :
          i # j => state.students[i].color # state.students[j].color

----------------------------------------------------------------------------
(* C12 *)

DisplayOptions ==
    <<"connectPoints", "showCelerationLines", "showDataPoints", "showRecordFloor">>

\* what the e-th drawn series is when only the one display option is on, in
\* the context the series is drawn in; nothing when that option is off
StepOps(e, option) ==
    IF state.displayOptions[option]
    THEN stroked(drawDataSeries([o \in Range(DisplayOptions) |-> o = option],
                                StudentOf(canvas.series[e]), canvas.series[e].metric,
                                ChartWidth, ChartHeight, state.zoom),
                 lineCapBefore(canvas.series, e))
    ELSE <<>>

\* C12: the operations of a drawn series are those of the connecting line,
\* then the trend line, then the markers, then the record-floor ticks, and
\* the operations of each step are what that step draws when its own option
\* alone is on: no other option adds, removes or changes them.
C12_StepsGatedIndependently ==
    \A e \in DOMAIN canvas.series :
        canvas.series[e].ops =
            StepOps(e, DisplayOptions[1]) \o StepOps(e, DisplayOptions[2])
               \o StepOps(e, DisplayOptions[3]) \o StepOps(e, DisplayOptions[4])

\* the operation without the line cap the context strokes it with
Uncapped(o) == [k \in DOMAIN o \ {"lineCap"} |-> o[k]]

\* C12, the part the code has: but for the line cap of the strokes, the steps
\* are drawn in that order and each depends on its own option only
C12_IndependentButForLineCap ==
    \A e \in DOMAIN canvas.series :
        LET alone == StepOps(e, DisplayOptions[1]) \o StepOps(e, DisplayOptions[2])
                        \o StepOps(e, DisplayOptions[3]) \o StepOps(e, DisplayOptions[4])
        IN [i \in DOMAIN canvas.series[e].ops |-> Uncapped(canvas.series[e].ops[i])]
              = [i \in DOMAIN alone |-> Uncapped(alone[i])]

----------------------------------------------------------------------------
(* C13 *)

\* the Y coordinates valueToY gave the operations of a series from the data:
\* those of the connecting line, the markers and the record-floor ticks
RECURSIVE MappedYs(_)
MappedYs(ops) ==
    IF ops = <<>> THEN <<>>
    ELSE (CASE Head(ops).op = "polyline" ->
                  [i \in DOMAIN Head(ops).path |-> Head(ops).path[i].y]
            [] Head(ops).op = "trend" -> <<>>
            [] OTHER -> <<Head(ops).y>>)
         \o MappedYs(Tail(ops))

\* C13: every value a draw hands to valueToY from the data is positive, and
\* the drawn Y coordinates are the mappings of exactly those values: the
\* connecting line maps only positive points, a marker of a value <= 0 maps
\* the sentinel 0.0005, a record-floor tick maps 1 / countingTimeMin of a
\* positive counting time; and with showDataPoints on every visible point of
\* value 0 of a metric other than errorsPerMinute is drawn as a "?" marker at
\* the sentinel height.
C13_Theorem ==
    \A e \in DOMAIN canvas.series :
        LET entry == canvas.series[e]
            calls == valueToYCalls(state.displayOptions, StudentOf(entry),
                                   entry.metric, state.zoom)
            inside == InSpan(StudentOf(entry), entry.metric, state.zoom)
            markers == SelectSeq(entry.ops, IsMarker)
        IN /\ \A i \in DOMAIN calls : calls[i] > 0
           /\ MappedYs(entry.ops) = [i \in DOMAIN calls |-> valueToY(calls[i], ChartHeight)]
           /\ state.displayOptions.showDataPoints =>
                 /\ Len(markers) = Len(inside)
                 /\ \A i \in DOMAIN inside :
                       (inside[i].point.value = 0 /\ entry.metric # "errorsPerMinute")
                          => /\ markers[i].op = "qmark"
                             /\ markers[i].y = valueToY(Sentinel, ChartHeight)

\* a series with a connecting line, markers and record-floor ticks drawn,
\* one of its visible points of value 0 drawn as a "?"
C13_Witness ==
    /\ state.displayOptions.connectPoints
    /\ state.displayOptions.showDataPoints
    /\ state.displayOptions.showRecordFloor
    /\ \E e \in DOMAIN canvas.series :
          /\ canvas.series[e].metric = "correctPerMinute"
          /\ \E i \in DOMAIN canvas.series[e].ops :
                /\ canvas.series[e].ops[i].op = "polyline"
                /\ Len(canvas.series[e].ops[i].path) >= 2
          /\ \E i \in DOMAIN canvas.series[e].ops : canvas.series[e].ops[i].op = "qmark"
          /\ \E i \in DOMAIN canvas.series[e].ops : canvas.series[e].ops[i].op = "floor"

----------------------------------------------------------------------------
(* C14 *)

\* C14: every id in the active selection is the id of a student in the
\* roster, and no id occurs twice in the active selection.
C14_SelectionWithinRoster ==
    /\ \A a \in DOMAIN state.activeStudents :
          findStudent(state.students, state.activeStudents[a]) # 0
    /\ \A a, b \in DOMAIN state.activeStudents :
          a # b => state.activeStudents[a] # state.activeStudents[b]

\* C14, the part the code has: the active ids that are ids of roster entries
\* occur once each, and a removed student's id is no longer active
C14_StoredIdsOnceAndRemoved ==
    /\ [](\A a, b \in DOMAIN resolvedStudents(state) :
            a # b => resolvedStudents(state)[a] # resolvedStudents(state)[b])
    /\ [][\A i \in DOMAIN state.students :
             ("id" \in DOMAIN state.students[i]
                 /\ findStudent(state'.students, state.students[i].id) = 0)
                => state.students[i].id \notin Range(state'.activeStudents)]_vars

----------------------------------------------------------------------------
(* C15 *)

\* C15: a step that ingests a well-formed record of a student not in the
\* roster, with or without an id of its own, adds one roster entry, appends
\* that student's id to the active selection, stores the same id on the new
\* entry, and the chart drawn by the step has the student's series.
C15_NewStudentStoredAndDrawn ==
    [][\A data \in RosterRecords, now \in GeneratedIds :
          LET studentId == studentIdOf(data, now)
          IN (findStudent(state.students, studentId) = 0
                 /\ state' = ingested(state, data, now))
             => /\ Len(state'.students) = Len(state.students) + 1
                /\ state'.activeStudents = Append(state.activeStudents, studentId)
                /\ hasId(state'.students[Len(state'.students)], studentId)
                /\ state.activeMetrics # <<>> =>
                      \E e \in DOMAIN canvas'.series :
                         canvas'.series[e].studentId = studentId]_vars

----------------------------------------------------------------------------
(* C16 *)

\* the X coordinates of the markers of a drawn series
MarkerXs(entry) ==
    LET markers == SelectSeq(entry.ops, IsMarker)
    IN [i \in DOMAIN markers |-> markers[i].x]

\* the assessment, day and normalized day of every point of a series
Anchored(points) ==
    LET normalized == IF points = <<>> THEN <<>> ELSE normalizePoints(points)
    IN [i \in DOMAIN points |->
           <<points[i].assessment, points[i].day, normalized[i].normalizedDay>>]

\* C16: for every student, the series extracted for any metric identifier,
\* known or not, has one point for each assessment with celeration data and
\* for no other, and has the assessments, the days and the normalized days of
\* the correctPerMinute series in the same order; any two metric series of a
\* student therefore agree in them and have one day-0 anchor; the values of an
\* unknown metric are all 0; and the markers of two drawn series of one
\* student stand at the same X coordinates.
C16_Theorem ==
    /\ \A k \in DOMAIN state.students :
          LET student == state.students[k]
              charted == Charted(student)
              reference == Anchored(getDataPoints(student, "correctPerMinute"))
          IN \A m \in AllMetrics :
                LET points == getDataPoints(student, m)
                IN /\ Anchored(points) = reference
                   /\ Len(points) = Len(charted)
                   /\ \A a \in Range(charted) :
                         Cardinality({i \in DOMAIN points : points[i].assessment = a})
                            = Cardinality({i \in DOMAIN charted : charted[i] = a})
                   /\ m \notin Range(metricOrder) =>
                         \A i \in DOMAIN points : points[i].value = 0
    /\ \A e1, e2 \in DOMAIN canvas.series :
          canvas.series[e1].studentId = canvas.series[e2].studentId
             => MarkerXs(canvas.series[e1]) = MarkerXs(canvas.series[e2])

\* a student with an assessment without celeration data and two with, on
\* different days and ingested later day first, both series drawn
C16_Witness ==
    /\ Len(canvas.series) = 2
    /\ Len(MarkerXs(canvas.series[1])) = 2
    /\ MarkerXs(canvas.series[1])[1] # MarkerXs(canvas.series[1])[2]
    /\ \E k \in DOMAIN state.students :
          LET as == state.students[k].assessments
          IN /\ Len(as) = 3
             /\ \E i \in DOMAIN as : ~hasCeleration(as[i])
             /\ \E i, j \in DOMAIN as :
                   /\ i < j /\ hasCeleration(as[i]) /\ hasCeleration(as[j])
                   /\ as[i].celeration.calendarDay > as[j].celeration.calendarDay

====
